---- MODULE Spec2Model ----
(***************************************************************************)
(* Model of the OpenPecha search API (src/api.py): the two /search entry   *)
(* points, the four perform_*_search strategies, get_embedding,            *)
(* build_filter_expression and format_results.                             *)
(*                                                                         *)
(* Python strings that the code inspects or concatenates are sequences of  *)
(* one-character strings.  Optional[T] is None or Some(v).  Floats are     *)
(* integers (0.0 is 0).  A dict is a function; a key that may be missing   *)
(* is a missing element of its DOMAIN.                                     *)
(***************************************************************************)
EXTENDS Integers, Sequences, FiniteSets, TLC

\* ------------------------------------------------------------------ bounds
MaxQueryLen == 2
MaxTitleLen == 1
MaxBatches == 2
MaxHits == 2
NumRequests == 2

\* ------------------------------------------------------- program constants
MinLimit == 1
MaxLimit == 100
MinQueryLength == 1

\* ------------------------------------------------------------ Python values
None == [none |-> TRUE]
Some(x) == [none |-> FALSE, v |-> x]

\* Truth value of an Optional[str]: None and "" are falsy.
Truthy(o) == (~o.none) /\ o.v # <<>>

\* A pydantic model instance is always truthy; only None is falsy.
TruthyObj(o) == ~o.none

SeqsUpTo(S, n) == UNION {[1..k -> S] : k \in 0..n}

\* sep.join(parts)
RECURSIVE Join(_, _)
Join(parts, sep) ==
    IF parts = <<>> THEN <<>>
    ELSE IF Len(parts) = 1 THEN parts[1]
    ELSE parts[1] \o sep \o Join(Tail(parts), sep)

\* str.replace(old, new): left to right, non-overlapping, old non-empty.
RECURSIVE StrReplace(_, _, _)
StrReplace(s, old, new) ==
    IF Len(s) < Len(old) THEN s
    ELSE IF SubSeq(s, 1, Len(old)) = old
         THEN new \o StrReplace(SubSeq(s, Len(old) + 1, Len(s)), old, new)
         ELSE <<Head(s)>> \o StrReplace(Tail(s), old, new)

UpperChars == <<"A","B","C","D","E","F","G","H","I","J","K","L","M",
                "N","O","P","Q","R","S","T","U","V","W","X","Y","Z">>
LowerChars == <<"a","b","c","d","e","f","g","h","i","j","k","l","m",
                "n","o","p","q","r","s","t","u","v","w","x","y","z">>

LowerChar(c) ==
    IF \E i \in 1..Len(UpperChars) : UpperChars[i] = c
    THEN LowerChars[CHOOSE i \in 1..Len(UpperChars) : UpperChars[i] = c]
    ELSE c

\* str.lower()
StrLower(s) == [i \in 1..Len(s) |-> LowerChar(s[i])]

\* dict.get(key, default)
Get(d, key, default) == IF key \in DOMAIN d THEN d[key] ELSE default

\* ------------------------------------------------------------ string literals
QUOTE == "'"
BACKSLASH == "\\"
DQUOTE == "\""

HYBRID == <<"h","y","b","r","i","d">>
BM25 == <<"b","m","2","5">>
SEMANTIC == <<"s","e","m","a","n","t","i","c">>
EXACT == <<"e","x","a","c","t">>

TitleEqOpen == <<"t","i","t","l","e"," ","=","="," ",DQUOTE>>
PhraseOpen == <<"P","H","R","A","S","E","_","M","A","T","C","H","(",
                "t","e","x","t",","," ",QUOTE>>
PhraseClose == <<QUOTE,")">>
AndSep == <<" ","&","&"," ">>
CommaSep == <<","," ">>

MILVUS_COLLECTION_NAME == "test_kangyur_tengyur"

\* ------------------------------------------------------------ pure functions

\* valid_types of both handlers
valid_types == <<HYBRID, BM25, SEMANTIC, EXACT>>

\* Mutant of IsValidType: any non-empty search_type passes
IsValidTypeLoose(t) == t # <<>>

IsValidType(t) == \E i \in 1..Len(valid_types) : valid_types[i] = t

HTTPException(code, msg, arg) ==
    [status |-> code, detail |-> [msg |-> msg, arg |-> arg], body |-> None]

InvalidTypeError ==
    HTTPException(400, "Invalid search_type. Must be one of: ",
                  Join(valid_types, CommaSep))

\* f'title == "{title}"'
TitleCondition(title) == TitleEqOpen \o title \o <<DQUOTE>>

\* build_filter_expression(filter_obj), filter_obj an Optional[SearchFilter]
build_filter_expression(filter_obj) ==
    IF ~TruthyObj(filter_obj) THEN None
    ELSE LET conditions ==
                 IF Truthy(filter_obj.v.title)
                 THEN <<TitleCondition(filter_obj.v.title.v)>>
                 ELSE <<>>
         IN  IF conditions # <<>> THEN Some(Join(conditions, AndSep)) ELSE None

\* filter_expr of the GET handler, from title_filter
get_filter_expression(title_filter) ==
    IF Truthy(title_filter) THEN Some(TitleCondition(title_filter.v)) ELSE None


\* output_fields = ['text'] if return_text else []
OutputFields(return_text) == IF return_text THEN <<"text">> ELSE <<>>

\* Mutant of WithFilter: the key is set even when no filter was compiled
WithFilterAlways(params, key, filter_expr) ==
    params @@ (key :> (IF filter_expr.none THEN <<>> ELSE filter_expr.v))

\* search_params / search_param_N with the optional filter key added
\* (if filter_expr: params[key] = filter_expr)
WithFilter(params, key, filter_expr) ==
    IF Truthy(filter_expr) THEN params @@ (key :> filter_expr.v) ELSE params

\* Mutant of NeedsEmbedding: hybrid search issues its call without a vector
NeedsEmbeddingSemanticOnly(mode) == mode = SEMANTIC

\* Whether perform_<mode>_search calls get_embedding(query) first
NeedsEmbedding(mode) == mode \in {HYBRID, SEMANTIC}

\* Mutant of get_embedding: a failure is swallowed and an empty vector returned
get_embedding_swallow(answer) ==
    IF answer.ok /\ answer.embeddings # <<>>
    THEN [ok |-> TRUE, value |-> answer.embeddings[1], exc |-> None]
    ELSE [ok |-> TRUE, value |-> <<>>, exc |-> None]

\* get_embedding(text) on the provider's answer: the first embedding, or
\* HTTPException 500 on any failure (the provider raising, or no embedding).
get_embedding(answer) ==
    IF ~answer.ok
    THEN [ok |-> FALSE, value |-> <<>>,
          exc |-> HTTPException(500, "Error generating embedding: ", answer.msg)]
    ELSE IF answer.embeddings = <<>>
    THEN [ok |-> FALSE, value |-> <<>>,
          exc |-> HTTPException(500, "Error generating embedding: ",
                                <<"list index out of range">>)]
    ELSE [ok |-> TRUE, value |-> answer.embeddings[1], exc |-> None]

\* escaped_query = query.replace("'", "\\'")
EscapeQuery(query) == StrReplace(query, <<QUOTE>>, <<BACKSLASH, QUOTE>>)

\* Mutant of ExactFilter: the escaping also runs over the compiled filter
ExactFilterEscapeAll(query, filter_expr) ==
    LET phrase_filter == PhraseOpen \o EscapeQuery(query) \o PhraseClose
    IN  IF Truthy(filter_expr)
        THEN phrase_filter \o AndSep \o EscapeQuery(filter_expr.v)
        ELSE phrase_filter

\* final_filter of perform_exact_search
ExactFilter(query, filter_expr) ==
    LET escaped_query == EscapeQuery(query)
        phrase_filter == PhraseOpen \o escaped_query \o PhraseClose
    IN  IF Truthy(filter_expr)
        THEN phrase_filter \o AndSep \o filter_expr.v
        ELSE phrase_filter

\* Mutant of HybridCall: each sub-request over-fetches twice the limit
HybridCallOverfetch(query, embedding, limit, filter_expr, return_text) ==
    LET search_param_1 ==
            WithFilter([data |-> <<query>>, anns_field |-> "sparce_vector",
                        param |-> "{}", limit |-> 2 * limit],
                       "expr", filter_expr)
        search_param_2 ==
            WithFilter([data |-> <<embedding>>, anns_field |-> "dense_vector",
                        param |-> "{drop_ratio_search: 0.2}", limit |-> 2 * limit],
                       "expr", filter_expr)
    IN  [kind |-> "hybrid_search",
         params |-> [collection_name |-> MILVUS_COLLECTION_NAME,
                     reqs |-> <<search_param_1, search_param_2>>,
                     ranker |-> "RRFRanker",
                     limit |-> limit,
                     output_fields |-> OutputFields(return_text)]]

\* The two AnnSearchRequest and the hybrid_search call of perform_hybrid_search
HybridCall(query, embedding, limit, filter_expr, return_text) ==
    LET search_param_1 ==
            WithFilter([data |-> <<query>>, anns_field |-> "sparce_vector",
                        param |-> "{}", limit |-> limit],
                       "expr", filter_expr)
        search_param_2 ==
            WithFilter([data |-> <<embedding>>, anns_field |-> "dense_vector",
                        param |-> "{drop_ratio_search: 0.2}", limit |-> limit],
                       "expr", filter_expr)
    IN  [kind |-> "hybrid_search",
         params |-> [collection_name |-> MILVUS_COLLECTION_NAME,
                     reqs |-> <<search_param_1, search_param_2>>,
                     ranker |-> "RRFRanker",
                     limit |-> limit,
                     output_fields |-> OutputFields(return_text)]]

\* The search call of perform_bm25_search
Bm25Call(query, limit, filter_expr, return_text) ==
    [kind |-> "search",
     params |-> WithFilter([collection_name |-> MILVUS_COLLECTION_NAME,
                            data |-> <<query>>,
                            anns_field |-> "sparce_vector",
                            limit |-> limit,
                            output_fields |-> OutputFields(return_text)],
                           "filter", filter_expr)]

\* The search call of perform_semantic_search
SemanticCall(embedding, limit, filter_expr, return_text) ==
    [kind |-> "search",
     params |-> WithFilter([collection_name |-> MILVUS_COLLECTION_NAME,
                            data |-> <<embedding>>,
                            anns_field |-> "dense_vector",
                            limit |-> limit,
                            output_fields |-> OutputFields(return_text)],
                           "filter", filter_expr)]

\* The search call of perform_exact_search
ExactCall(query, limit, filter_expr, return_text) ==
    [kind |-> "search",
     params |-> [collection_name |-> MILVUS_COLLECTION_NAME,
                 data |-> <<query>>,
                 anns_field |-> "sparce_vector",
                 limit |-> limit,
                 output_fields |-> OutputFields(return_text),
                 filter |-> ExactFilter(query, filter_expr)]]

\* The backend call perform_<mode>_search issues (embedding is unused by the
\* modes that fetch none)
BackendCall(mode, query, embedding, limit, filter_expr, return_text) ==
    IF mode = HYBRID
    THEN HybridCall(query, embedding, limit, filter_expr, return_text)
    ELSE IF mode = BM25
    THEN Bm25Call(query, limit, filter_expr, return_text)
    ELSE IF mode = SEMANTIC
    THEN SemanticCall(embedding, limit, filter_expr, return_text)
    ELSE ExactCall(query, limit, filter_expr, return_text)

\* SearchResult(id=hit.get('id'), distance=hit.get('distance', 0.0),
\*              entity=hit.get('entity', {}))
SearchResult(hit) ==
    [id |-> Get(hit, "id", None),
     distance |-> Get(hit, "distance", 0),
     entity |-> Get(hit, "entity", {})]

RECURSIVE FormatBatch(_)
FormatBatch(result_list) ==
    IF result_list = <<>> THEN <<>>
    ELSE <<SearchResult(Head(result_list))>> \o FormatBatch(Tail(result_list))

\* Mutant of FormatAll: only the first batch is kept
FormatAllFirstBatch(results) ==
    IF results = <<>> THEN <<>> ELSE FormatBatch(Head(results))

RECURSIVE FormatAll(_)
FormatAll(results) ==
    IF results = <<>> THEN <<>>
    ELSE FormatBatch(Head(results)) \o FormatAll(Tail(results))

\* format_results(results, query, search_type)
format_results(results, query, search_type) ==
    LET formatted_results == FormatAll(results)
    IN  [query |-> query,
         search_type |-> search_type,
         results |-> formatted_results,
         count |-> Len(formatted_results)]


\* ------------------------------------------------------------------- inputs
TestPhrase == <<"t","e","s","t"," ","p","h","r","a","s","e">>
ItsHere == <<"i","t",QUOTE,"s"," ","h","e","r","e">>
Chapter1 == <<"C","h","a","p","t","e","r","1">>

QueryAlphabet == {"a", QUOTE, BACKSLASH}
Queries == SeqsUpTo(QueryAlphabet, MaxQueryLen) \cup {TestPhrase, ItsHere}

TitleAlphabet == {"X", QUOTE}
Titles == SeqsUpTo(TitleAlphabet, MaxTitleLen) \cup {Chapter1}
OptTitles == {None} \cup {Some(t) : t \in Titles}

\* SearchFilter(title=...)
SearchFilters == {[title |-> t] : t \in OptTitles}
OptFilters == {None} \cup {Some(f) : f \in SearchFilters}

SearchTypes == {HYBRID, BM25, SEMANTIC, EXACT,
                <<"H","Y","B","R","I","D">>, <<"E","x","a","c","t">>,
                <<"f","o","o">>, <<>>}

Limits == {MinLimit - 1, MinLimit, 5, MaxLimit, MaxLimit + 1}

GetInputs(types, queries, limits, titles) ==
    [entry : {"GET"}, query : queries, search_type : types, limit : limits,
     return_text : BOOLEAN, title_filter : titles, filter : {None}]

PostInputs(types, queries, limits, filters) ==
    [entry : {"POST"}, query : queries, search_type : types, limit : limits,
     return_text : BOOLEAN, title_filter : {None}, filter : filters]

Inputs == GetInputs(SearchTypes, Queries, Limits, OptTitles)
              \cup PostInputs(SearchTypes, Queries, Limits, OptFilters)

\* ----------------------------------------------------- collaborator answers
Vec1 == <<"0.1", "0.2">>
Vec2 == <<"0.3", "0.4">>

\* genai_client.models.embed_content: embeddings, or an exception
EmbedAnswers ==
    {[ok |-> TRUE, embeddings |-> <<Vec1>>, msg |-> <<>>],
     [ok |-> TRUE, embeddings |-> <<Vec2, Vec1>>, msg |-> <<>>],
     [ok |-> TRUE, embeddings |-> <<>>, msg |-> <<>>],
     [ok |-> FALSE, embeddings |-> <<>>, msg |-> <<"quota exceeded">>]}

Hit1 == [id |-> 1, distance |-> 9, entity |-> {<<"text", "t1">>}]
Hit2 == [id |-> 2, distance |-> 4, entity |-> {<<"text", "t2">>}]
Hit1Bare == [id |-> 1]
HitKinds == {Hit1, Hit2, Hit1Bare}

BackendFailure == [ok |-> FALSE, batches |-> <<>>, msg |-> <<"collection not loaded">>]

\* milvus_client.search / hybrid_search: batches of hits, or an exception
BackendAnswers ==
    {[ok |-> TRUE, batches |-> <<>>, msg |-> <<>>],
     [ok |-> TRUE, batches |-> << <<Hit1, Hit2>> >>, msg |-> <<>>],
     [ok |-> TRUE, batches |-> << <<Hit2>>, <<>>, <<Hit1Bare, Hit2>> >>, msg |-> <<>>],
     BackendFailure}

\* Every shape of backend answer within the bounds
AllBackendAnswers ==
    {[ok |-> TRUE, batches |-> b, msg |-> <<>>] :
        b \in SeqsUpTo(SeqsUpTo(HitKinds, MaxHits), MaxBatches)}
    \cup {BackendFailure}

\* -------------------------------------------------------------------- state
VARIABLES
    req,        \* request -> the request as received
    pc,         \* request -> "idle", "received", "embedding", "searching", "done"
    loc,        \* frame -> local variables of the running handler
    log,        \* request -> collaborator calls and their returns, in order
    outcome,    \* request -> the HTTP outcome: status, detail, body
    normalized  \* request -> whether format_results has run

vars == <<req, pc, loc, log, outcome, normalized>>

Reqs == 1..NumRequests

NoLocals == [query |-> <<>>, limit |-> 0, return_text |-> FALSE, mode |-> <<>>,
             filter_expr |-> None, embedding |-> <<>>]
NoOutcome == [status |-> 0, detail |-> [msg |-> "", arg |-> <<>>], body |-> None]
IdleInput == [entry |-> "GET", query |-> <<>>, search_type |-> <<>>, limit |-> 0,
              return_text |-> FALSE, title_filter |-> None, filter |-> None]

\* Mutant of Frame: the locals live in one place shared by all requests
FrameShared(r) == 1

\* The frame holding the locals of request r's handler: each call has its own.
Frame(r) == r

\* FastAPI's validation of the declared parameter constraints
\* (Query(ge=1, le=100); SearchRequest: min_length=1, ge=1, le=100)
SchemaValid(i) ==
    /\ i.limit >= MinLimit
    /\ i.limit <= MaxLimit
    /\ (i.entry = "POST" => Len(i.query) >= MinQueryLength)

RequestValidationError == HTTPException(422, "validation error", <<>>)

Reject(r, exc) ==
    /\ outcome' = [outcome EXCEPT ![r] = exc]
    /\ pc' = [pc EXCEPT ![r] = "done"]
    /\ UNCHANGED <<req, loc, log, normalized>>

\* perform_<mode>_search up to its first collaborator call
Route(r, mode, query, limit, filter_expr, return_text) ==
    /\ loc' = [loc EXCEPT ![Frame(r)] =
                  [query |-> query, limit |-> limit, return_text |-> return_text,
                   mode |-> mode, filter_expr |-> filter_expr, embedding |-> <<>>]]
    /\ IF NeedsEmbedding(mode)
       THEN /\ log' = [log EXCEPT ![r] =
                          Append(@, [kind |-> "embed_content", text |-> query])]
            /\ pc' = [pc EXCEPT ![r] = "embedding"]
       ELSE /\ log' = [log EXCEPT ![r] =
                          Append(@, BackendCall(mode, query, <<>>, limit,
                                                filter_expr, return_text))]
            /\ pc' = [pc EXCEPT ![r] = "searching"]
    /\ UNCHANGED <<req, outcome, normalized>>

\* GET /search
unified_search(r) ==
    /\ pc[r] = "received"
    /\ req[r].entry = "GET"
    /\ LET i == req[r]
           search_type_lower == StrLower(i.search_type)
       IN  IF ~SchemaValid(i) THEN Reject(r, RequestValidationError)
           ELSE IF ~IsValidType(search_type_lower) THEN Reject(r, InvalidTypeError)
           ELSE Route(r, search_type_lower, i.query, i.limit,
                      get_filter_expression(i.title_filter), i.return_text)

\* POST /search
unified_search_post(r) ==
    /\ pc[r] = "received"
    /\ req[r].entry = "POST"
    /\ LET i == req[r]
           search_type_lower == StrLower(i.search_type)
       IN  IF ~SchemaValid(i) THEN Reject(r, RequestValidationError)
           ELSE IF ~IsValidType(search_type_lower) THEN Reject(r, InvalidTypeError)
           ELSE Route(r, search_type_lower, i.query, i.limit,
                      build_filter_expression(i.filter), i.return_text)

\* get_embedding returns or raises inside perform_hybrid_search /
\* perform_semantic_search; on success the backend call is issued
EmbeddingReturns(r, answers) ==
    /\ pc[r] = "embedding"
    /\ \E a \in answers :
        LET f == loc[Frame(r)]
            res == get_embedding(a)
        IN  IF res.ok
            THEN /\ loc' = [loc EXCEPT ![Frame(r)].embedding = res.value]
                 /\ log' = [log EXCEPT ![r] = @ \o
                               <<[kind |-> "embed_ret", answer |-> a],
                                 BackendCall(f.mode, f.query, res.value, f.limit,
                                             f.filter_expr, f.return_text)>>]
                 /\ pc' = [pc EXCEPT ![r] = "searching"]
                 /\ UNCHANGED <<req, outcome, normalized>>
            ELSE /\ log' = [log EXCEPT ![r] = Append(@, [kind |-> "embed_ret", answer |-> a])]
                 /\ outcome' = [outcome EXCEPT ![r] = res.exc]
                 /\ pc' = [pc EXCEPT ![r] = "done"]
                 /\ UNCHANGED <<req, loc, normalized>>

\* milvus_client.search / hybrid_search returns or raises; the handler
\* returns format_results(...) or turns the exception into a 500
BackendReturns(r, answers) ==
    /\ pc[r] = "searching"
    /\ \E a \in answers :
        /\ LET f == loc[Frame(r)]
           IN  IF a.ok
               THEN /\ outcome' = [outcome EXCEPT ![r] =
                          [status |-> 200, detail |-> [msg |-> "", arg |-> <<>>],
                           body |-> Some(format_results(a.batches, f.query, f.mode))]]
                    /\ normalized' = [normalized EXCEPT ![r] = TRUE]
               ELSE /\ outcome' = [outcome EXCEPT ![r] =
                          HTTPException(500, "Search failed: ", a.msg)]
                    /\ UNCHANGED normalized
        /\ log' = [log EXCEPT ![r] = Append(@, [kind |-> "backend_ret", answer |-> a])]
    /\ pc' = [pc EXCEPT ![r] = "done"]
    /\ UNCHANGED <<req, loc>>

InitWith(active, inputs) ==
    /\ \E given \in [active -> inputs] :
           req = [r \in Reqs |-> IF r \in active THEN given[r] ELSE IdleInput]
    /\ pc = [r \in Reqs |-> IF r \in active THEN "received" ELSE "idle"]
    /\ loc = [r \in Reqs |-> NoLocals]
    /\ log = [r \in Reqs |-> <<>>]
    /\ outcome = [r \in Reqs |-> NoOutcome]
    /\ normalized = [r \in Reqs |-> FALSE]

\* One request, every input within the bounds
Init == InitWith({1}, Inputs)

Next ==
    \E r \in Reqs :
        \/ unified_search(r)
        \/ unified_search_post(r)
        \/ EmbeddingReturns(r, EmbedAnswers)
        \/ BackendReturns(r, BackendAnswers)

Spec == Init /\ [][Next]_vars


\* Several requests in flight together, a few inputs each
ConcInputsAll ==
    PostInputs({HYBRID}, {<<"a">>}, {MinLimit}, {Some([title |-> Some(<<"X">>)])})
    \cup GetInputs({EXACT}, {<<QUOTE>>}, {MaxLimit}, {None})
    \cup GetInputs({SEMANTIC}, {<<"a", "a">>}, {5}, {Some(Chapter1)})
    \cup PostInputs({BM25, <<"f","o","o">>}, {TestPhrase}, {5}, {None})

ConcInputs == {i \in ConcInputsAll : i.return_text}

InitConc == InitWith(Reqs, ConcInputs)

SpecConc == InitConc /\ [][Next]_vars

\* One request of each mode, every shape of backend answer within the bounds
FormatInputs ==
    GetInputs({BM25, SEMANTIC}, {<<"a">>}, {5}, {None})
    \cup PostInputs({HYBRID, EXACT}, {<<"a">>}, {5}, {None})

FormatEmbedAnswers == {[ok |-> TRUE, embeddings |-> <<Vec1>>, msg |-> <<>>]}

InitFormat ==
    /\ InitWith({1}, FormatInputs)
    /\ req[1].return_text

NextFormat ==
    \E r \in Reqs :
        \/ unified_search(r)
        \/ unified_search_post(r)
        \/ EmbeddingReturns(r, FormatEmbedAnswers)
        \/ BackendReturns(r, AllBackendAnswers)

SpecFormat == InitFormat /\ [][NextFormat]_vars


\* ================================================================== claims
\* Vocabulary of the claims, stated without the handlers' helpers.

Active(r) == pc[r] # "idle"
Done(r) == pc[r] = "done"

\* The mode a search_type spelling stands for, <<>> when it is no mode
SpelledMode(t) ==
    IF t \in {HYBRID, <<"H","Y","B","R","I","D">>} THEN HYBRID
    ELSE IF t = BM25 THEN BM25
    ELSE IF t = SEMANTIC THEN SEMANTIC
    ELSE IF t \in {EXACT, <<"E","x","a","c","t">>} THEN EXACT
    ELSE <<>>

ModeIsValid(r) == SpelledMode(req[r].search_type) # <<>>

\* The request passes the declared parameter constraints of its entry point
PassesSchema(r) ==
    /\ req[r].limit \in 1..100
    /\ (req[r].entry = "POST" => req[r].query # <<>>)

EmbedCallsAt(r) == {k \in DOMAIN log[r] : log[r][k].kind = "embed_content"}
BackendCallsAt(r) ==
    {k \in DOMAIN log[r] : log[r][k].kind \in {"search", "hybrid_search"}}
EmbedReturnsAt(r) == {k \in DOMAIN log[r] : log[r][k].kind = "embed_ret"}
BackendReturnsAt(r) == {k \in DOMAIN log[r] : log[r][k].kind = "backend_ret"}

FourModesText ==
    <<"h","y","b","r","i","d",","," ","b","m","2","5",","," ",
      "s","e","m","a","n","t","i","c",","," ","e","x","a","c","t">>

\* C1 as stated: every request with an unsupported search_type, on either
\* entry point, ends in status 400 whose detail names the four modes, and
\* makes no collaborator call.
C1_InvalidModeIs400 ==
    \A r \in Reqs :
        (Active(r) /\ ~ModeIsValid(r)) =>
            /\ log[r] = <<>>
            /\ Done(r) => /\ outcome[r].status = 400
                          /\ outcome[r].detail.arg = FourModesText

\* C1 amended: a request with an unsupported search_type makes no collaborator
\* call; if it passes the declared parameter constraints it ends in status 400
\* whose detail names the four modes, otherwise the framework has already
\* rejected it with status 422.
C1_InvalidModeRejected ==
    \A r \in Reqs :
        (Active(r) /\ ~ModeIsValid(r)) =>
            /\ log[r] = <<>>
            /\ pc[r] \in {"received", "done"}
            /\ ~normalized[r]
            /\ Done(r) =>
                 /\ outcome[r].body = None
                 /\ IF PassesSchema(r)
                    THEN /\ outcome[r].status = 400
                         /\ outcome[r].detail.msg = "Invalid search_type. Must be one of: "
                         /\ outcome[r].detail.arg = FourModesText
                    ELSE outcome[r].status = 422

C1_Witness ==
    /\ Done(1)
    /\ req[1].entry = "POST"
    /\ req[1].search_type = <<"f","o","o">>
    /\ outcome[1].status = 400

\* C2 as stated: a request whose query is the empty string makes no
\* collaborator call and is rejected, whatever the mode and the entry point.
C2_EmptyQueryNoCall ==
    \A r \in Reqs :
        (Active(r) /\ req[r].query = <<>>) =>
            /\ log[r] = <<>>
            /\ Done(r) => outcome[r].status \in {400, 422}


\* Index of the first single quote of s at or after i that no backslash
\* escapes, reading left to right with backslash as the escape character;
\* 0 when there is none.
RECURSIVE FirstUnescapedQuote(_, _)
FirstUnescapedQuote(s, i) ==
    IF i > Len(s) THEN 0
    ELSE IF s[i] = BACKSLASH THEN FirstUnescapedQuote(s, i + 2)
    ELSE IF s[i] = QUOTE THEN i
    ELSE FirstUnescapedQuote(s, i + 1)

PhraseOpenText ==
    <<"P","H","R","A","S","E","_","M","A","T","C","H","(",
      "t","e","x","t",","," ","'">>

\* What follows the literal's closing quote in an exact-mode predicate: ")"
\* and, when a filter was compiled, " && " and that filter.
AfterClosingQuote(fe) ==
    IF fe.none \/ fe.v = <<>> THEN 1 ELSE 1 + 4 + Len(fe.v)

\* C3 as stated: in exact mode the predicate is PHRASE_MATCH(text, '<literal>')
\* where every single quote coming from the query is preceded by a backslash
\* and the first unescaped single quote of the literal, read left to right
\* with backslash as the escape character, is the closing one the builder adds.
C3_QuoteNeverEndsLiteral ==
    \A r \in Reqs : \A k \in BackendCallsAt(r) :
        SpelledMode(req[r].search_type) = EXACT =>
            LET p == log[r][k].params.filter
                open == Len(PhraseOpenText)
                closing == Len(p) - AfterClosingQuote(loc[r].filter_expr)
            IN  /\ SubSeq(p, 1, open) = PhraseOpenText
                /\ p[closing] = "'"
                /\ \A j \in (open + 1)..(closing - 1) :
                       p[j] = "'" => p[j - 1] = "\\"
                /\ FirstUnescapedQuote(p, open + 1) = closing

\* A request the handler dispatches to a strategy
Dispatched(r) == Active(r) /\ PassesSchema(r) /\ ModeIsValid(r)

EmbeddingModes == {HYBRID, SEMANTIC}

\* C4: the number of embedding calls of a dispatched request depends only on
\* its mode (one for hybrid and semantic, none for bm25 and exact, never more
\* while it runs), and in hybrid mode the embedding call has returned before
\* the fused backend call, which carries the returned vector, is issued.
C4_EmbeddingCallsByMode ==
    \A r \in Reqs :
        Dispatched(r) =>
            LET mode == SpelledMode(req[r].search_type)
                n == Cardinality(EmbedCallsAt(r))
            IN  /\ n <= (IF mode \in EmbeddingModes THEN 1 ELSE 0)
                /\ pc[r] # "received" => n = (IF mode \in EmbeddingModes THEN 1 ELSE 0)
                /\ \A k \in BackendCallsAt(r) :
                       mode \in EmbeddingModes =>
                           /\ k = 3
                           /\ log[r][1].kind = "embed_content"
                           /\ log[r][1].text = req[r].query
                           /\ log[r][2].kind = "embed_ret"
                           /\ log[r][2].answer.ok
                           /\ mode = HYBRID =>
                                /\ log[r][k].kind = "hybrid_search"
                                /\ log[r][k].params.reqs[2].data =
                                       <<log[r][2].answer.embeddings[1]>>

C4_Witness ==
    /\ Done(1)
    /\ SpelledMode(req[1].search_type) = HYBRID
    /\ req[1].limit = 100
    /\ ~req[1].return_text
    /\ outcome[1].status = 200
    /\ Cardinality(EmbedCallsAt(1)) = 1

\* The title the request filters on: Some(X), or None when it gives none
GivenTitle(r) ==
    IF req[r].entry = "GET" THEN req[r].title_filter
    ELSE IF req[r].filter.none THEN None
    ELSE req[r].filter.v.title

TitleEquals(x) == <<"t","i","t","l","e"," ","=","="," ","\"">> \o x \o <<"\"">>

\* How the calls of request r must carry the compiled expression e (None when
\* absent): bm25 and semantic under "filter", both hybrid sub-requests under
\* "expr"; no such key at all when e is absent.
CallsCarry(r, e) ==
    \A k \in BackendCallsAt(r) :
        LET c == log[r][k]
        IN  IF c.kind = "hybrid_search"
            THEN /\ "filter" \notin DOMAIN c.params
                 /\ "expr" \notin DOMAIN c.params
                 /\ \A n \in 1..2 :
                        IF e.none
                        THEN DOMAIN c.params.reqs[n] =
                                 {"data", "anns_field", "param", "limit"}
                        ELSE /\ "expr" \in DOMAIN c.params.reqs[n]
                             /\ c.params.reqs[n].expr = e.v
            ELSE SpelledMode(req[r].search_type) # EXACT =>
                   IF e.none
                   THEN DOMAIN c.params =
                            {"collection_name", "data", "anns_field", "limit",
                             "output_fields"}
                   ELSE /\ "filter" \in DOMAIN c.params
                        /\ c.params.filter = e.v

\* C6 as stated: title = X compiles to title == "X", no filter or no set field
\* compiles to an absent expression, and the bm25, semantic and hybrid calls
\* carry exactly the compiled expression, or no filter clause when absent.
C6_TitleAlwaysCompiles ==
    \A r \in Reqs :
        (Dispatched(r) /\ pc[r] # "received") =>
            LET t == GivenTitle(r)
                e == IF t.none THEN None ELSE Some(TitleEquals(t.v))
            IN  /\ loc[r].filter_expr = e
                /\ CallsCarry(r, e)

\* C6 amended: a non-empty title X compiles to title == "X"; no filter, a
\* filter without title and an empty title compile to an absent expression;
\* the bm25, semantic and hybrid calls (both hybrid sub-requests) carry
\* exactly the compiled expression, or no filter clause at all when absent.
C6_FilterCompilation ==
    \A r \in Reqs :
        (Dispatched(r) /\ pc[r] # "received") =>
            LET t == GivenTitle(r)
                e == IF t.none \/ t.v = <<>> THEN None ELSE Some(TitleEquals(t.v))
            IN  /\ loc[r].filter_expr = e
                /\ CallsCarry(r, e)

C6_Witness ==
    /\ Done(1)
    /\ req[1].entry = "POST"
    /\ SpelledMode(req[1].search_type) = HYBRID
    /\ GivenTitle(1) = Some(<<"X">>)
    /\ \E k \in BackendCallsAt(1) : log[1][k].params.reqs[1].expr = TitleEquals(<<"X">>)


\* The query with a backslash put before each of its single quotes
RECURSIVE QuotesEscaped(_)
QuotesEscaped(q) ==
    IF q = <<>> THEN <<>>
    ELSE (IF Head(q) = "'" THEN <<"\\", "'">> ELSE <<Head(q)>>)
             \o QuotesEscaped(Tail(q))

ExamplePredicate ==
    <<"P","H","R","A","S","E","_","M","A","T","C","H","(","t","e","x","t",","," ",
      "'","t","e","s","t"," ","p","h","r","a","s","e","'",")",
      " ","&","&"," ",
      "t","i","t","l","e"," ","=","="," ","\"","C","h","a","p","t","e","r","1","\"">>

\* C7: the exact-mode call always carries a filter, which is
\* PHRASE_MATCH(text, '<query with its quotes escaped>') followed, when a
\* filter was compiled, by " && " and the compiled filter unaltered; query
\* "test phrase" with title "Chapter1" gives
\* PHRASE_MATCH(text, 'test phrase') && title == "Chapter1".
C7_ExactPredicate ==
    \A r \in Reqs : \A k \in BackendCallsAt(r) :
        SpelledMode(req[r].search_type) = EXACT =>
            LET c == log[r][k]
                t == GivenTitle(r)
                phrase == PhraseOpenText \o QuotesEscaped(req[r].query) \o <<"'", ")">>
            IN  /\ c.kind = "search"
                /\ "filter" \in DOMAIN c.params
                /\ c.params.filter =
                       IF t.none \/ t.v = <<>> THEN phrase
                       ELSE phrase \o <<" ","&","&"," ">> \o TitleEquals(t.v)
                /\ (req[r].query = TestPhrase /\ t = Some(Chapter1)) =>
                       c.params.filter = ExamplePredicate

C7_Witness ==
    /\ Done(1)
    /\ SpelledMode(req[1].search_type) = EXACT
    /\ req[1].query = <<"'", "a">>
    /\ GivenTitle(1) = Some(<<"'">>)
    /\ \E k \in BackendCallsAt(1) :
           log[1][k].params.filter =
               PhraseOpenText \o <<"\\", "'", "a", "'", ")", " ", "&", "&", " ">>
                   \o <<"t","i","t","l","e"," ","=","="," ","\"","'","\"">>

\* C8: every backend call carries the request's limit unchanged; in hybrid
\* mode the lexical sub-request, the semantic sub-request and the fused call
\* all carry it, and the two sub-requests carry the same filter expression.
C8_LimitPassedThrough ==
    \A r \in Reqs :
        Dispatched(r) =>
            /\ pc[r] \in {"searching", "done"} /\ ~(\E k \in EmbedReturnsAt(r) :
                   ~log[r][k].answer.ok \/ log[r][k].answer.embeddings = <<>>)
                   => Cardinality(BackendCallsAt(r)) = 1
            /\ \A k \in BackendCallsAt(r) :
                 LET c == log[r][k]
                 IN  /\ c.params.limit = req[r].limit
                     /\ c.kind = "hybrid_search" <=>
                            SpelledMode(req[r].search_type) = HYBRID
                     /\ c.kind = "hybrid_search" =>
                          /\ Len(c.params.reqs) = 2
                          /\ c.params.reqs[1].limit = req[r].limit
                          /\ c.params.reqs[2].limit = req[r].limit
                          /\ c.params.reqs[1].anns_field = "sparce_vector"
                          /\ c.params.reqs[2].anns_field = "dense_vector"
                          /\ ("expr" \in DOMAIN c.params.reqs[1])
                                 <=> ("expr" \in DOMAIN c.params.reqs[2])
                          /\ "expr" \in DOMAIN c.params.reqs[1] =>
                                 c.params.reqs[1].expr = c.params.reqs[2].expr

C8_Witness ==
    /\ Done(1)
    /\ SpelledMode(req[1].search_type) = HYBRID
    /\ req[1].limit = 100
    /\ GivenTitle(1) = Some(Chapter1)
    /\ \E k \in BackendCallsAt(1) :
           /\ log[1][k].params.reqs[1].limit = 100
           /\ log[1][k].params.reqs[2].limit = 100
           /\ log[1][k].params.limit = 100

\* The collaborator's answer is a failure of the call
EmbedFailed(a) == ~a.ok \/ a.embeddings = <<>>
BackendFailed(a) == ~a.ok

\* C9: a request makes at most one embedding call and at most one backend
\* call; after a failed embedding call no backend call is made; a failed
\* embedding or backend call is the last event of the request, which ends in
\* status 500 carrying the failure's message, with no response body and
\* without format_results having run.
C9_FailureIsTerminal ==
    \A r \in Reqs :
        Active(r) =>
            /\ Cardinality(EmbedCallsAt(r)) <= 1
            /\ Cardinality(BackendCallsAt(r)) <= 1
            /\ \A k \in EmbedReturnsAt(r) :
                 EmbedFailed(log[r][k].answer) =>
                     /\ BackendCallsAt(r) = {}
                     /\ k = Len(log[r])
                     /\ Done(r)
                     /\ outcome[r].status = 500
                     /\ outcome[r].detail.msg = "Error generating embedding: "
                     /\ ~log[r][k].answer.ok =>
                            outcome[r].detail.arg = log[r][k].answer.msg
                     /\ outcome[r].body = None
                     /\ ~normalized[r]
            /\ \A k \in BackendReturnsAt(r) :
                 BackendFailed(log[r][k].answer) =>
                     /\ k = Len(log[r])
                     /\ Done(r)
                     /\ outcome[r].status = 500
                     /\ outcome[r].detail.msg = "Search failed: "
                     /\ outcome[r].detail.arg = log[r][k].answer.msg
                     /\ outcome[r].body = None
                     /\ ~normalized[r]

C9_Witness ==
    /\ Done(1)
    /\ SpelledMode(req[1].search_type) = HYBRID
    /\ \E k \in EmbedReturnsAt(1) : ~log[1][k].answer.ok
    /\ outcome[1].status = 500
    /\ outcome[1].detail.arg = <<"quota exceeded">>


\* Number of hits in the first n batches
RECURSIVE HitsBefore(_, _)
HitsBefore(batches, n) ==
    IF n = 0 THEN 0 ELSE Len(batches[n]) + HitsBefore(batches, n - 1)

\* C5: whatever batches the backend answers, the response has
\* count = length(results), and results holds every hit of every batch once,
\* in backend order (hit h of batch j at position HitsBefore(j - 1) + h), with
\* its id, its distance or 0 when it has none, and its entity or {}.
C5_CountAndOrder ==
    \A r \in Reqs : \A k \in BackendReturnsAt(r) :
        log[r][k].answer.ok =>
            LET b == log[r][k].answer.batches
                body == outcome[r].body
            IN  /\ outcome[r].status = 200
                /\ ~body.none
                /\ body.v.count = Len(body.v.results)
                /\ body.v.count = HitsBefore(b, Len(b))
                /\ body.v.query = req[r].query
                /\ body.v.search_type = SpelledMode(req[r].search_type)
                /\ \A j \in 1..Len(b) : \A h \in 1..Len(b[j]) :
                       LET x == body.v.results[HitsBefore(b, j - 1) + h]
                       IN  /\ x.id = b[j][h].id
                           /\ x.distance = IF "distance" \in DOMAIN b[j][h]
                                           THEN b[j][h].distance ELSE 0
                           /\ x.entity = IF "entity" \in DOMAIN b[j][h]
                                         THEN b[j][h].entity ELSE {}

C5_Witness ==
    /\ Done(1)
    /\ SpelledMode(req[1].search_type) = HYBRID
    /\ \E k \in BackendReturnsAt(1) :
           log[1][k].answer.batches = << <<Hit2, Hit1>>, <<Hit1Bare>> >>
    /\ outcome[1].body.v.count = 3
    /\ outcome[1].body.v.results[3] = [id |-> 1, distance |-> 0, entity |-> {}]

\* The answers request r has received, in order
RECURSIVE AnswersIn(_)
AnswersIn(l) ==
    IF l = <<>> THEN <<>>
    ELSE (IF Head(l).kind \in {"embed_ret", "backend_ret"}
          THEN <<Head(l).answer>> ELSE <<>>) \o AnswersIn(Tail(l))

\* The backend part of a request run alone
SoloBackend(before, mode, i, embedding, filter_expr, answers) ==
    LET call == BackendCall(mode, i.query, embedding, i.limit, filter_expr,
                            i.return_text)
    IN  IF answers = <<>>
        THEN [log |-> before \o <<call>>, outcome |-> NoOutcome]
        ELSE [log |-> before \o <<call, [kind |-> "backend_ret", answer |-> answers[1]]>>,
              outcome |->
                  IF answers[1].ok
                  THEN [status |-> 200, detail |-> [msg |-> "", arg |-> <<>>],
                        body |-> Some(format_results(answers[1].batches, i.query, mode))]
                  ELSE HTTPException(500, "Search failed: ", answers[1].msg)]

\* The calls and the outcome of request i run alone, from its handler's first
\* step up to the last of the given collaborator answers
SoloRun(i, answers) ==
    LET mode == StrLower(i.search_type)
        filter_expr == IF i.entry = "GET"
                       THEN get_filter_expression(i.title_filter)
                       ELSE build_filter_expression(i.filter)
        embed == [kind |-> "embed_content", text |-> i.query]
    IN  IF ~SchemaValid(i) THEN [log |-> <<>>, outcome |-> RequestValidationError]
        ELSE IF ~IsValidType(mode) THEN [log |-> <<>>, outcome |-> InvalidTypeError]
        ELSE IF ~NeedsEmbedding(mode)
        THEN SoloBackend(<<>>, mode, i, <<>>, filter_expr, answers)
        ELSE IF answers = <<>> THEN [log |-> <<embed>>, outcome |-> NoOutcome]
        ELSE LET res == get_embedding(answers[1])
                 ret == [kind |-> "embed_ret", answer |-> answers[1]]
             IN  IF ~res.ok
                 THEN [log |-> <<embed, ret>>, outcome |-> res.exc]
                 ELSE SoloBackend(<<embed, ret>>, mode, i, res.value, filter_expr,
                                  Tail(answers))

\* Each started request has made the calls, and has the outcome, of the same
\* request run alone with the answers it received
C10_RunsAsAlone ==
    \A r \in Reqs :
        pc[r] \in {"embedding", "searching", "done"} =>
            LET solo == SoloRun(req[r], AnswersIn(log[r]))
            IN  /\ Len(log[r]) = Len(solo.log)
                /\ \A k \in DOMAIN log[r] : log[r][k] = solo.log[k]
                /\ outcome[r] = solo.outcome

\* A step leaves every request that does not take it untouched
C10_StepsAreLocal ==
    \A r \in Reqs :
        pc'[r] = pc[r] =>
            /\ req'[r] = req[r]
            /\ loc'[r] = loc[r]
            /\ log'[r] = log[r]
            /\ outcome'[r] = outcome[r]
            /\ normalized'[r] = normalized[r]

\* C10: in every interleaving of the in-flight requests at their collaborator
\* calls, no step of one request changes the state of another, and each
\* request's backend call and response are those of the request run alone
\* with the same collaborator answers.
C10_NoInterference == [](C10_RunsAsAlone) /\ [][C10_StepsAreLocal]_vars

C10_Witness ==
    /\ Done(2)
    /\ outcome[2].status = 200
    /\ SpelledMode(req[2].search_type) = SEMANTIC
    /\ pc[1] = "searching"
    /\ SpelledMode(req[1].search_type) = HYBRID
    /\ Cardinality(EmbedReturnsAt(1)) = 1

====
